---------------------------- MODULE Spec2Model ----------------------------
(***************************************************************************)
(* A model of the artifact store of photon-serve                           *)
(* (src/internal/services/file_service.go): SaveFile with its retention    *)
(* step and its two move strategies, DeleteFile, GetFilePath, ListFiles    *)
(* and ListFilesByCategory with the listing cache, run by concurrent       *)
(* request goroutines over one filesystem tree and one sync.RWMutex.       *)
(*                                                                         *)
(* The filesystem is the category directories (dirs) and the scratch       *)
(* directory (temp).  A file is [data, len, mtime]: data is the id of the  *)
(* SaveFile call whose bytes it holds (0: a file found at startup), len    *)
(* the number of chunks written so far (FileLen: complete), mtime the      *)
(* instant of its last write.  Instants are finer than the Unix second:    *)
(* TicksPerSecond instants share one value of ModTime().Unix().            *)
(*                                                                         *)
(* os.CreateTemp names are unique per call, so a temp file is keyed by the *)
(* goroutine that made it.  Storage faults are separate actions (…Fail).   *)
(* The deferred os.Remove(tempPath) discards its error and is modelled as  *)
(* removing the file whenever it is there.                                 *)
(*                                                                         *)
(* Around the store: the Upload and ServeDownload handlers with the two    *)
(* admission gates (the buffered channels uploadSem and downloadSem) and   *)
(* the download counters, and the token-bucket RateLimiter of              *)
(* src/cmd/server/main.go with its cleanup sweep, on a clock of its own    *)
(* with UnitsPerMinute instants to the minute.                             *)
(* IncrementDownloadCount runs under the same lock and starts a saveStats  *)
(* goroutine that marshals the counters and writes stats.json; the         *)
(* RateLimit and Auth middleware stand before Upload.                      *)
(***************************************************************************)
EXTENDS Integers, Sequences, FiniteSets, TLC

\* ------------------------------------------------------------- bounds
\* request goroutines
NumProcs == 2
\* calls started in one behaviour (one more where the calls are few in kind)
MaxCalls == 2
\* chunks of one artifact
FileLen == 2
\* last instant of the clock
MaxTime == 2
\* instants sharing one Unix second
TicksPerSecond == 2
\* Unix seconds sharing one "2006-01-02 15:04" minute
SecondsPerMinute == 2
\* max_files of category vanilla
MaxFiles == 2
\* max_files of category gapps
MaxFilesGapps == 1
\* requests the handlers begin in one behaviour
MaxRequests == 3
\* concurrency.max_concurrent_uploads
MaxConcurrentUploads == 1
\* concurrency.max_concurrent_downloads
MaxConcurrentDownloads == 1
\* largest security.rate_limit.burst_size
MaxBurst == 2
\* largest security.rate_limit.requests_per_minute
MaxRate == 3
\* instants of the limiter's clock in one minute
UnitsPerMinute == 2

Procs == 1..NumProcs
Names == {"a.zip", "b.zip", "c.zip"}
None == 0
\* the client identities the limiter sees
Ips == {"x", "y"}

\* ------------------------------------------------------ configuration
Categories ==
  [vanilla |-> [Enabled |-> TRUE, MaxFiles |-> MaxFiles],
   gapps |-> [Enabled |-> TRUE, MaxFiles |-> MaxFilesGapps]]
CatNames == DOMAIN Categories
\* the (category, filename) pairs the requests name
Targets == {<<"vanilla", f>> : f \in Names} \cup {<<"gapps", "a.zip">>}
\* the keys of the download counters the requests raise
DlKeys == {<<"vanilla", "a.zip">>, <<"vanilla", "c.zip">>}

VARIABLES
  dirs,         \* category directory -> (filename -> file)
  temp,         \* scratch directory: goroutine -> its upload-*.tmp file
  mu,           \* the RWMutex: [w: writer or None, r: set of readers]
  cacheValid,   \* FileService.cacheValid
  cachedFiles,  \* FileService.cachedFiles
  now,          \* the clock
  calls,        \* calls started so far; the id of the latest
  quota,        \* calls a behaviour may start
  pc,           \* goroutine -> its position ("done": its call has returned)
  call,         \* goroutine -> the call it runs
  files,        \* goroutine -> enforceFileLimit's local slice
  err,          \* goroutine -> the error its call returns
  out,          \* goroutine -> the value its call returns
  touched,      \* history: goroutine -> its call has changed a category dir
  landed,       \* history: goroutine -> its commit is in place, not removed since
  live,         \* history: (category, filename) saved with success, not removed since
  expect,       \* history: goroutine -> what was live when its call began, not removed since
  lastList,     \* history: <<artifacts>> of the latest ListFiles result, <<>> once a mutation began
  scanned,      \* history: goroutine -> its ListFiles call scanned the directories
  lastCommit,   \* history: category -> filename the latest successful SaveFile put there
  hpc,          \* goroutine -> its position in the HTTP handler it runs
  hreq,         \* goroutine -> the request it handles
  hstatus,      \* goroutine -> the status of the response it has written
  reqs,         \* requests begun so far
  uploadSem,    \* len(FileService.uploadSem)
  downloadSem,  \* len(FileService.downloadSem)
  downloadCounts, \* FileService.downloadCounts
  loaded,       \* goroutine -> the counter it read in s.downloadCounts[key]++
  flush,        \* the saveStats goroutines: [pending: started, data: marshalled, not written]
  statsFile,    \* the content of stats.json
  incs,         \* history: key -> IncrementDownloadCount calls that have returned
  rate,         \* RateLimiter.rate
  burst,        \* RateLimiter.burst
  clients,      \* RateLimiter.clients: identity -> [tokens, lastRefill]
  rlNow,        \* time.Now() as the limiter reads it
  ret,          \* the latest Allow call: <<identity, result>>
  seen,         \* history: identity -> its Allow calls since its bucket was made
  called,       \* history: identity -> it called Allow after the ticker's latest tick instant
  granted       \* history: identity -> number of its tallied Allow calls that returned true

\* the artifact store
storeVars == <<dirs, temp, mu, cacheValid, cachedFiles, now, calls, quota, pc, call,
               files, err, out, touched, landed, live, expect, lastList, scanned,
               lastCommit>>

\* the handlers and the admission gates
\* the download counters and their file
countVars == <<downloadCounts, loaded, flush, statsFile, incs>>

handlerVars == <<hpc, hreq, hstatus, reqs, uploadSem, downloadSem, countVars>>

\* the rate limiter
limiterVars == <<rate, burst, clients, rlNow, ret, seen, called, granted>>

vars == <<storeVars, handlerVars, limiterVars>>

\* -------------------------------------------------------- filesystem
\* a directory holding nothing
NoFiles == [x \in {} |-> 0]

NewFile(id, t) == [data |-> id, len |-> 0, mtime |-> t]

Exists(d, f) == f \in DOMAIN d

Put(d, f, file) == [x \in DOMAIN d \cup {f} |-> IF x = f THEN file ELSE d[x]]

Del(d, f) == [x \in DOMAIN d \ {f} |-> d[x]]

WriteChunk(file, t) == [file EXCEPT !.len = @ + 1, !.mtime = t]

Min(a, b) == IF a < b THEN a ELSE b

\* info.ModTime().Unix()
Unix(t) == t \div TicksPerSecond

\* info.ModTime().Format("2006-01-02 15:04")
FormatMinute(t) == Unix(t) \div SecondsPerMinute

\* filepath.Ext
Ext(f) == CASE f \in {"a.zip", "b.zip", "c.zip"} -> ".zip" [] OTHER -> ""

AllowedExts == {".zip"}

\* Config.IsAllowedExtension
IsAllowedExtension(ext) == ext \in AllowedExts

NoCall == [op |-> "none", category |-> "", filename |-> "", id |-> 0]

\* no request: the goroutine is parked
NoReq == [category |-> "", filename |-> "", parse |-> TRUE, magic |-> TRUE]

\* -------------------------------------------------------------- Init
StartFile == [data |-> 0, len |-> FileLen, mtime |-> 0]

\* the directories at startup, vanilla holding the files S
StartDirs(S) ==
  [c \in CatNames |-> [f \in (IF c = "vanilla" THEN S ELSE {}) |-> StartFile]]

\* NewFileService: both semaphores empty, no counts; no request yet
InitHandlers ==
  /\ hpc = [p \in Procs |-> "idle"]
  /\ hreq = [p \in Procs |-> NoReq]
  /\ hstatus = [p \in Procs |-> 0]
  /\ reqs = 0
  /\ uploadSem = 0
  /\ downloadSem = 0
  /\ downloadCounts = [k \in DlKeys |-> 0]
  /\ loaded = [p \in Procs |-> 0]
  /\ flush = [pending |-> 0, data |-> {}]
  /\ statsFile = [k \in DlKeys |-> 0]
  /\ incs = [k \in DlKeys |-> 0]

\* NewRateLimiter(r, b): no bucket yet
InitLimiter(r, b) ==
  /\ rate = r
  /\ burst = b
  /\ clients = NoFiles
  /\ rlNow = 0
  /\ ret = <<>>
  /\ seen = NoFiles
  /\ called = [ip \in Ips |-> FALSE]
  /\ granted = [ip \in Ips |-> 0]

\* the store after NewFileService, the directories and the quota aside
InitStore ==
  /\ temp = NoFiles
  /\ mu = [w |-> None, r |-> {}]
  /\ cacheValid = FALSE
  /\ cachedFiles = <<>>
  /\ now = 0
  /\ calls = 0
  /\ pc = [p \in Procs |-> "idle"]
  /\ call = [p \in Procs |-> NoCall]
  /\ files = [p \in Procs |-> {}]
  /\ err = [p \in Procs |-> "nil"]
  /\ out = [p \in Procs |-> <<>>]
  /\ touched = [p \in Procs |-> FALSE]
  /\ landed = [p \in Procs |-> FALSE]
  /\ live = {}
  /\ expect = [p \in Procs |-> {}]

InitRest ==
  /\ InitHandlers
  /\ InitLimiter(1, 1)
  /\ lastList = <<>>
  /\ scanned = [p \in Procs |-> FALSE]
  /\ lastCommit = [c \in CatNames |-> ""]
  /\ InitStore

\* every category starts within its limit
Init ==
  /\ dirs \in {StartDirs({}), StartDirs({"a.zip", "b.zip"})}
  /\ quota = MaxCalls
  /\ InitRest

\* ------------------------------------------------------ history (ghost)
\* (c, f) left category c: by retention or by DeleteFile
Forget(c, f) ==
  /\ live' = live \ {<<c, f>>}
  /\ landed' = [q \in Procs |->
                  landed[q] /\ ~(call[q].category = c /\ call[q].filename = f)]
  /\ expect' = [q \in Procs |-> expect[q] \ {<<c, f>>}]

Touch(p) == touched' = [touched EXCEPT ![p] = @ \/ (dirs' # dirs)]

\* a call begins
Begin(p, op, c, f) ==
  /\ pc[p] = "idle"
  /\ calls < quota
  /\ calls' = calls + 1
  /\ call' = [call EXCEPT ![p] = [op |-> op, category |-> c, filename |-> f,
                                  id |-> calls + 1]]
  /\ expect' = [expect EXCEPT ![p] = live]
  /\ UNCHANGED quota

\* ------------------------------------------------------------ the lock
\* a Lock that waits for nobody
CanLockAlways == TRUE

\* sync.RWMutex.Lock waits for the writer and the readers to leave
CanLock == mu.w = None /\ mu.r = {}

\* sync.RWMutex.RLock waits for the writer to leave
CanRLock == mu.w = None

\* an Unlock that keeps the lock
WriterAfterUnlockKept(p) == p

\* sync.RWMutex.Unlock
WriterAfterUnlock(p) == None

\* ------------------------------------------------------------ SaveFile
\* 1. os.CreateTemp(tempDir, "upload-*.tmp"), defer os.Remove(tempPath)
CreateTempOK(p, c, f) ==
  /\ Begin(p, "SaveFile", c, f)
  /\ temp' = Put(temp, p, NewFile(calls + 1, now))
  /\ pc' = [pc EXCEPT ![p] = "stream"]
  /\ UNCHANGED <<dirs, mu, cacheValid, cachedFiles, now, files, err, out,
                 touched, landed, live>>
  /\ lastList' = <<>>
  /\ UNCHANGED scanned
  /\ UNCHANGED <<lastCommit, handlerVars, limiterVars>>

\* os.CreateTemp fails: SaveFile returns at once
CreateTempFail(p, c, f) ==
  /\ Begin(p, "SaveFile", c, f)
  /\ err' = [err EXCEPT ![p] = "create temp"]
  /\ pc' = [pc EXCEPT ![p] = "done"]
  /\ UNCHANGED <<dirs, temp, mu, cacheValid, cachedFiles, now, files, out,
                 touched, landed, live>>
  /\ lastList' = <<>>
  /\ UNCHANGED scanned
  /\ UNCHANGED <<lastCommit, handlerVars, limiterVars>>

\* io.Copy's error ignored: SaveFile goes on to commit
AfterStreamErrorIgnored == "lock"

\* where SaveFile goes when io.Copy into the temp file fails: it returns
AfterStreamError == "cleanup"

\* 2. io.Copy(tempFile, reader), one chunk; tempFile.Close() after the last
StreamChunk(p) ==
  /\ pc[p] = "stream"
  /\ temp[p].len < FileLen
  /\ temp' = [temp EXCEPT ![p] = WriteChunk(@, now)]
  /\ pc' = [pc EXCEPT ![p] = IF temp'[p].len = FileLen THEN "lock" ELSE "stream"]
  /\ UNCHANGED <<dirs, mu, cacheValid, cachedFiles, now, calls, quota, call, files,
                 err, out, touched, landed, live, expect>>
  /\ UNCHANGED <<lastList, scanned, lastCommit, handlerVars, limiterVars>>

\* io.Copy fails (a storage fault, or the client went away)
StreamFail(p) ==
  /\ pc[p] = "stream"
  /\ err' = [err EXCEPT ![p] = "write"]
  /\ pc' = [pc EXCEPT ![p] = AfterStreamError]
  /\ UNCHANGED <<dirs, temp, mu, cacheValid, cachedFiles, now, calls, quota, call,
                 files, out, touched, landed, live, expect>>
  /\ UNCHANGED <<lastList, scanned, lastCommit, handlerVars, limiterVars>>

\* 3. s.mu.Lock(), defer s.mu.Unlock()
Lock(p) ==
  /\ pc[p] = "lock"
  /\ CanLock
  /\ mu' = [mu EXCEPT !.w = p]
  /\ pc' = [pc EXCEPT ![p] = "enforce"]
  /\ UNCHANGED <<dirs, temp, cacheValid, cachedFiles, now, calls, quota, call, files,
                 err, out, touched, landed, live, expect>>
  /\ UNCHANGED <<lastList, scanned, lastCommit, handlerVars, limiterVars>>

\* 4. enforceFileLimit: os.ReadDir and the files slice (name, modTime in seconds)
EnforceScan(p) ==
  /\ pc[p] = "enforce"
  /\ files' = [files EXCEPT ![p] =
                 { [name |-> f, modTime |-> Unix(dirs[call[p].category][f].mtime)] :
                     f \in DOMAIN dirs[call[p].category] }]
  /\ pc' = [pc EXCEPT ![p] = "evict"]
  /\ UNCHANGED <<dirs, temp, mu, cacheValid, cachedFiles, now, calls, quota, call,
                 err, out, touched, landed, live, expect>>
  /\ UNCHANGED <<lastList, scanned, lastCommit, handlerVars, limiterVars>>

\* the loop condition, off by one
OverLimitStrict(n, max) == n > max

\* for len(files) >= maxFiles
OverLimit(n, max) == n >= max

\* sort.Slice by modTime ascending (not stable), then files[0]
Oldest(fs) == { x \in fs : \A y \in fs : x.modTime <= y.modTime }

\* one turn of the loop: os.Remove(oldPath) succeeds
EvictOK(p) ==
  /\ pc[p] = "evict"
  /\ OverLimit(Cardinality(files[p]), Categories[call[p].category].MaxFiles)
  /\ \E oldest \in Oldest(files[p]) :
       /\ Exists(dirs[call[p].category], oldest.name)
       /\ dirs' = [dirs EXCEPT ![call[p].category] = Del(@, oldest.name)]
       /\ files' = [files EXCEPT ![p] = @ \ {oldest}]
       /\ Forget(call[p].category, oldest.name)
  /\ Touch(p)
  /\ UNCHANGED <<temp, mu, cacheValid, cachedFiles, now, calls, quota, pc, call, err,
                 out>>
  /\ UNCHANGED <<lastList, scanned, lastCommit, handlerVars, limiterVars>>

\* one turn of the loop: os.Remove(oldPath) fails
EvictFail(p) ==
  /\ pc[p] = "evict"
  /\ OverLimit(Cardinality(files[p]), Categories[call[p].category].MaxFiles)
  /\ err' = [err EXCEPT ![p] = "limit"]
  /\ pc' = [pc EXCEPT ![p] = "unlock"]
  /\ UNCHANGED <<dirs, temp, mu, cacheValid, cachedFiles, now, calls, quota, call,
                 files, out, touched, landed, live, expect>>
  /\ UNCHANGED <<lastList, scanned, lastCommit, handlerVars, limiterVars>>

\* 5. os.Rename(tempPath, finalPath) succeeds
RenameOK(p) ==
  /\ pc[p] = "evict"
  /\ ~OverLimit(Cardinality(files[p]), Categories[call[p].category].MaxFiles)
  /\ dirs' = [dirs EXCEPT ![call[p].category] = Put(@, call[p].filename, temp[p])]
  /\ temp' = Del(temp, p)
  /\ pc' = [pc EXCEPT ![p] = "unlock"]
  /\ Touch(p)
  /\ landed' = [landed EXCEPT ![p] = TRUE]
  /\ lastCommit' = [lastCommit EXCEPT ![call[p].category] = call[p].filename]
  /\ UNCHANGED <<mu, cacheValid, cachedFiles, now, calls, quota, call, files, err, out,
                 live, expect>>
  /\ UNCHANGED <<lastList, scanned, handlerVars, limiterVars>>

\* os.Rename fails (the scratch directory is on another volume): manualMove
RenameFail(p) ==
  /\ pc[p] = "evict"
  /\ ~OverLimit(Cardinality(files[p]), Categories[call[p].category].MaxFiles)
  /\ pc' = [pc EXCEPT ![p] = "move"]
  /\ UNCHANGED <<dirs, temp, mu, cacheValid, cachedFiles, now, calls, quota, call,
                 files, err, out, touched, landed, live, expect>>
  /\ UNCHANGED <<lastList, scanned, lastCommit, handlerVars, limiterVars>>

\* manualMove returns an error; SaveFile returns "failed to save file"
MoveError(p) ==
  /\ err' = [err EXCEPT ![p] = "save"]
  /\ pc' = [pc EXCEPT ![p] = "unlock"]
  /\ UNCHANGED <<dirs, temp, mu, cacheValid, cachedFiles, now, calls, quota, call,
                 files, out, touched, landed, live, expect>>
  /\ UNCHANGED <<lastList, scanned, lastCommit, handlerVars, limiterVars>>

\* manualMove: os.Open(source) or os.Create(dest) fails
MMOpenFail(p) ==
  /\ pc[p] = "move"
  /\ MoveError(p)

\* manualMove: os.Create(dest) makes, or truncates, the final file
MMCreate(p) ==
  /\ pc[p] = "move"
  /\ dirs' = [dirs EXCEPT ![call[p].category] =
                Put(@, call[p].filename, NewFile(call[p].id, now))]
  /\ pc' = [pc EXCEPT ![p] = "mm_copy"]
  /\ Touch(p)
  /\ UNCHANGED <<temp, mu, cacheValid, cachedFiles, now, calls, quota, call, files,
                 err, out, landed, live, expect>>
  /\ UNCHANGED <<lastList, scanned, lastCommit, handlerVars, limiterVars>>

\* manualMove: io.Copy(outputFile, inputFile), one chunk
MMCopyChunk(p) ==
  /\ pc[p] = "mm_copy"
  /\ dirs[call[p].category][call[p].filename].len < temp[p].len
  /\ dirs' = [dirs EXCEPT ![call[p].category][call[p].filename] = WriteChunk(@, now)]
  /\ pc' = [pc EXCEPT ![p] =
              IF dirs'[call[p].category][call[p].filename].len = temp[p].len
              THEN "mm_sync" ELSE "mm_copy"]
  /\ Touch(p)
  /\ UNCHANGED <<temp, mu, cacheValid, cachedFiles, now, calls, quota, call, files,
                 err, out, landed, live, expect>>
  /\ UNCHANGED <<lastList, scanned, lastCommit, handlerVars, limiterVars>>

\* manualMove: io.Copy fails
MMCopyFail(p) ==
  /\ pc[p] = "mm_copy"
  /\ MoveError(p)

\* manualMove: outputFile.Sync() or outputFile.Close() fails
MMSyncFail(p) ==
  /\ pc[p] = "mm_sync"
  /\ MoveError(p)

\* manualMove: Sync and Close succeed, os.Remove(source) fails
MMRemoveFail(p) ==
  /\ pc[p] = "mm_remove"
  /\ MoveError(p)

\* manualMove: outputFile.Sync() and outputFile.Close() succeed
MMSync(p) ==
  /\ pc[p] = "mm_sync"
  /\ pc' = [pc EXCEPT ![p] = "mm_remove"]
  /\ UNCHANGED <<dirs, temp, mu, cacheValid, cachedFiles, now, calls, quota, call,
                 files, err, out, touched, landed, live, expect>>
  /\ UNCHANGED <<lastList, scanned, lastCommit, handlerVars, limiterVars>>

\* manualMove: os.Remove(source) succeeds
MMRemove(p) ==
  /\ pc[p] = "mm_remove"
  /\ temp' = Del(temp, p)
  /\ pc' = [pc EXCEPT ![p] = "unlock"]
  /\ landed' = [landed EXCEPT ![p] = TRUE]
  /\ lastCommit' = [lastCommit EXCEPT ![call[p].category] = call[p].filename]
  /\ UNCHANGED <<dirs, mu, cacheValid, cachedFiles, now, calls, quota, call, files,
                 err, out, touched, live, expect>>
  /\ UNCHANGED <<lastList, scanned, handlerVars, limiterVars>>

\* the deferred s.mu.Unlock()
Unlock(p) ==
  /\ pc[p] = "unlock"
  /\ mu' = [mu EXCEPT !.w = WriterAfterUnlock(p)]
  /\ pc' = [pc EXCEPT ![p] = "cleanup"]
  /\ UNCHANGED <<dirs, temp, cacheValid, cachedFiles, now, calls, quota, call, files,
                 err, out, touched, landed, live, expect>>
  /\ UNCHANGED <<lastList, scanned, lastCommit, handlerVars, limiterVars>>

\* the cleanup left out
TempAfterCleanupKept(p) == temp

\* the deferred os.Remove(tempPath)
TempAfterCleanup(p) == Del(temp, p)

\* the deferred os.Remove(tempPath), and SaveFile returns
Cleanup(p) ==
  /\ pc[p] = "cleanup"
  /\ temp' = TempAfterCleanup(p)
  /\ live' = IF err[p] = "nil" /\ landed[p]
             THEN live \cup {<<call[p].category, call[p].filename>>} ELSE live
  /\ pc' = [pc EXCEPT ![p] = "done"]
  /\ UNCHANGED <<dirs, mu, cacheValid, cachedFiles, now, calls, quota, call, files,
                 err, out, touched, landed, expect>>
  /\ UNCHANGED <<lastList, scanned, lastCommit, handlerVars, limiterVars>>

\* ---------------------------------------------------------- DeleteFile
\* a missing file reported as found
ErrNotFoundNil == "nil"

\* fmt.Errorf("file not found")
ErrNotFound == "file not found"

\* the invalidation left out
CacheAfterDeleteKept == cacheValid

\* s.cacheValid = false
CacheAfterDelete == FALSE

\* s.mu.Lock(), defer s.mu.Unlock(), s.cacheValid = false
DeleteLock(p, c, f) ==
  /\ Begin(p, "DeleteFile", c, f)
  /\ CanLock
  /\ mu' = [mu EXCEPT !.w = p]
  /\ cacheValid' = CacheAfterDelete
  /\ pc' = [pc EXCEPT ![p] = "delete"]
  /\ UNCHANGED <<dirs, temp, cachedFiles, now, files, err, out, touched,
                 landed, live>>
  /\ lastList' = <<>>
  /\ UNCHANGED scanned
  /\ UNCHANGED <<lastCommit, handlerVars, limiterVars>>

\* DeleteFile returns e; the deferred s.mu.Unlock()
DeleteReturn(p, e) ==
  /\ mu' = [mu EXCEPT !.w = WriterAfterUnlock(p)]
  /\ err' = [err EXCEPT ![p] = e]
  /\ pc' = [pc EXCEPT ![p] = "done"]
  /\ UNCHANGED <<temp, cacheValid, cachedFiles, now, calls, quota, call, files, out>>
  /\ UNCHANGED <<lastList, scanned, lastCommit, handlerVars, limiterVars>>

\* os.Stat says the file is not there
DeleteNotFound(p) ==
  /\ pc[p] = "delete"
  /\ ~Exists(dirs[call[p].category], call[p].filename)
  /\ DeleteReturn(p, ErrNotFound)
  /\ UNCHANGED <<dirs, touched, landed, live, expect>>

\* os.Remove(filePath) succeeds
DeleteRemove(p) ==
  /\ pc[p] = "delete"
  /\ Exists(dirs[call[p].category], call[p].filename)
  /\ dirs' = [dirs EXCEPT ![call[p].category] = Del(@, call[p].filename)]
  /\ Forget(call[p].category, call[p].filename)
  /\ Touch(p)
  /\ DeleteReturn(p, "nil")

\* os.Remove(filePath) fails
DeleteRemoveFail(p) ==
  /\ pc[p] = "delete"
  /\ Exists(dirs[call[p].category], call[p].filename)
  /\ DeleteReturn(p, "remove")
  /\ UNCHANGED <<dirs, touched, landed, live, expect>>

\* --------------------------------------------------------- GetFilePath
\* os.Stat(filePath), no lock; out: what a read of the returned path finds
GetFilePath(p, c, f) ==
  /\ Begin(p, "GetFilePath", c, f)
  /\ err' = [err EXCEPT ![p] = IF Exists(dirs[c], f) THEN "nil"
                               ELSE ErrNotFound]
  /\ out' = [out EXCEPT ![p] = IF Exists(dirs[c], f) THEN <<dirs[c][f]>>
                               ELSE <<>>]
  /\ pc' = [pc EXCEPT ![p] = "done"]
  /\ UNCHANGED <<dirs, temp, mu, cacheValid, cachedFiles, now, files, touched,
                 landed, live>>
  /\ UNCHANGED <<lastList, scanned, lastCommit, handlerVars, limiterVars>>

\* ----------------------------------------------- IncrementDownloadCount
\* the key of a counter: filepath.Join(category, filename)
Key(c, f) == <<c, f>>

\* s.downloadCounts[key]++
CountAfter(n) == n + 1

\* IncrementDownloadCount(key) is called
IDCBegin(p, k) ==
  /\ Begin(p, "IncrementDownloadCount", k[1], k[2])
  /\ pc' = [pc EXCEPT ![p] = "idc_lock"]
  /\ UNCHANGED <<dirs, temp, mu, cacheValid, cachedFiles, now, files, err, out,
                 touched, landed, live, lastList, scanned, lastCommit, handlerVars,
                 limiterVars>>

\* s.mu.Lock(), and the read of s.downloadCounts[key]++
IDCLock(p) ==
  /\ pc[p] = "idc_lock"
  /\ CanLock
  /\ mu' = [mu EXCEPT !.w = p]
  /\ loaded' = [loaded EXCEPT ![p] =
                  downloadCounts[Key(call[p].category, call[p].filename)]]
  /\ pc' = [pc EXCEPT ![p] = "idc_store"]
  /\ UNCHANGED <<dirs, temp, cacheValid, cachedFiles, now, calls, quota, call, files,
                 err, out, touched, landed, live, expect, lastList, scanned,
                 lastCommit>>
  /\ UNCHANGED <<hpc, hreq, hstatus, reqs, uploadSem, downloadSem, downloadCounts,
                 flush, statsFile, incs, limiterVars>>

\* the write of s.downloadCounts[key]++, s.mu.Unlock(), go s.saveStats()
IDCStore(p) ==
  /\ pc[p] = "idc_store"
  /\ downloadCounts' = [downloadCounts EXCEPT
                         ![Key(call[p].category, call[p].filename)] =
                           CountAfter(loaded[p])]
  /\ loaded' = [loaded EXCEPT ![p] = 0]
  /\ mu' = [mu EXCEPT !.w = WriterAfterUnlock(p)]
  /\ flush' = [flush EXCEPT !.pending = @ + 1]
  /\ incs' = [incs EXCEPT ![Key(call[p].category, call[p].filename)] = @ + 1]
  /\ pc' = [pc EXCEPT ![p] = "done"]
  /\ UNCHANGED <<dirs, temp, cacheValid, cachedFiles, now, calls, quota, call, files,
                 err, out, touched, landed, live, expect, lastList, scanned,
                 lastCommit>>
  /\ UNCHANGED <<hpc, hreq, hstatus, reqs, uploadSem, downloadSem, statsFile,
                 limiterVars>>

\* saveStats: s.mu.RLock(), json.MarshalIndent(s.downloadCounts), s.mu.RUnlock()
FlushSnapshot ==
  /\ flush.pending > 0
  /\ CanRLock
  /\ flush' = [pending |-> flush.pending - 1,
               data |-> flush.data \cup {downloadCounts}]
  /\ UNCHANGED <<storeVars, hpc, hreq, hstatus, reqs, uploadSem, downloadSem,
                 downloadCounts, loaded, statsFile, incs, limiterVars>>

\* saveStats: os.WriteFile(s.statsPath, data, 0644), by any of the goroutines
\* that hold marshalled data (equal data writes equal bytes)
FlushWrite ==
  /\ \E d \in flush.data :
       /\ statsFile' = d
       /\ flush' = [flush EXCEPT !.data = @ \ {d}]
  /\ UNCHANGED <<storeVars, hpc, hreq, hstatus, reqs, uploadSem, downloadSem,
                 downloadCounts, loaded, incs, limiterVars>>

\* ----------------------------------------------------------- ListFiles
\* the artifacts of a result: (category, filename, size, timestamp)
Artifacts(sq) ==
  { [Category |-> sq[i].Category, Filename |-> sq[i].Filename,
     SizeBytes |-> sq[i].SizeBytes, UpdatedAt |-> sq[i].UpdatedAt] :
      i \in 1..Len(sq) }

\* the calls that change a category directory
Mutators == {"SaveFile", "DeleteFile"}

\* what a ListFiles returning o leaves in lastList: nothing while a mutation runs
Listed(p, o) ==
  IF \E q \in Procs : call[q].op \in Mutators /\ pc[q] \notin {"idle", "done"}
  THEN <<>> ELSE <<Artifacts(o)>>

\* one entry of the rebuild's scan; Downloads is left at its zero value
FileInfo(c, f) ==
  [Category |-> c, Filename |-> f, SizeBytes |-> dirs[c][f].len,
   UpdatedAt |-> FormatMinute(dirs[c][f].mtime), Downloads |-> 0]

\* a counter that is not read
CachedCount(c, f) == 0

\* s.downloadCounts[key]: the zero value for a key the map does not hold
LiveCount(c, f) ==
  IF Key(c, f) \in DOMAIN downloadCounts THEN downloadCounts[Key(c, f)] ELSE 0

\* the result: a copy of the entries with the live counters injected
Inject(sq) ==
  [i \in 1..Len(sq) |->
     [sq[i] EXCEPT !.Downloads = LiveCount(sq[i].Category, sq[i].Filename)]]

\* the rebuild's scan: enabled categories, non-directories, allowed extensions
Scan ==
  UNION { { FileInfo(c, f) :
              f \in {y \in DOMAIN dirs[c] : IsAllowedExtension(Ext(y))} } :
          c \in {x \in CatNames : Categories[x].Enabled} }

\* sort.Slice by UpdatedAt descending (not stable) over a scan whose order
\* is the map's iteration order: any arrangement with UpdatedAt descending
Sorted(S) ==
  { sq \in [1..Cardinality(S) -> S] :
      /\ \A i, j \in 1..Cardinality(S) : i # j => sq[i] # sq[j]
      /\ \A i, j \in 1..Cardinality(S) :
           i < j => sq[i].UpdatedAt >= sq[j].UpdatedAt }

\* ListFiles or ListFilesByCategory (which calls ListFiles first) begins
ListBegin(p, op, c) ==
  /\ Begin(p, op, c, "")
  /\ pc' = [pc EXCEPT ![p] = "rlock"]
  /\ UNCHANGED <<dirs, temp, mu, cacheValid, cachedFiles, now, files, err, out,
                 touched, landed, live>>
  /\ UNCHANGED <<lastList, scanned, lastCommit, handlerVars, limiterVars>>

\* 1. s.mu.RLock()
LFRLock(p) ==
  /\ pc[p] = "rlock"
  /\ CanRLock
  /\ mu' = [mu EXCEPT !.r = @ \cup {p}]
  /\ pc' = [pc EXCEPT ![p] = "fast"]
  /\ UNCHANGED <<dirs, temp, cacheValid, cachedFiles, now, calls, quota, call, files,
                 err, out, touched, landed, live, expect>>
  /\ UNCHANGED <<lastList, scanned, lastCommit, handlerVars, limiterVars>>

\* where a call goes when ListFiles has returned
AfterList(p) == IF call[p].op = "ListFilesByCategory" THEN "invalidate" ELSE "done"

\* the fast path: the cache is valid; a copy of it, s.mu.RUnlock()
LFFastHit(p) ==
  /\ pc[p] = "fast"
  /\ cacheValid
  /\ out' = [out EXCEPT ![p] = Inject(cachedFiles)]
  /\ mu' = [mu EXCEPT !.r = @ \ {p}]
  /\ pc' = [pc EXCEPT ![p] = AfterList(p)]
  /\ UNCHANGED <<dirs, temp, cacheValid, cachedFiles, now, calls, quota, call, files,
                 err, touched, landed, live, expect>>
  /\ lastList' = Listed(p, out'[p])
  /\ UNCHANGED scanned
  /\ UNCHANGED <<lastCommit, handlerVars, limiterVars>>

\* the cache is not valid: s.mu.RUnlock()
LFFastMiss(p) ==
  /\ pc[p] = "fast"
  /\ ~cacheValid
  /\ mu' = [mu EXCEPT !.r = @ \ {p}]
  /\ pc' = [pc EXCEPT ![p] = "wlock"]
  /\ UNCHANGED <<dirs, temp, cacheValid, cachedFiles, now, calls, quota, call, files,
                 err, out, touched, landed, live, expect>>
  /\ UNCHANGED <<lastList, scanned, lastCommit, handlerVars, limiterVars>>

\* 2. s.mu.Lock(), defer s.mu.Unlock()
LFLock(p) ==
  /\ pc[p] = "wlock"
  /\ CanLock
  /\ mu' = [mu EXCEPT !.w = p]
  /\ pc' = [pc EXCEPT ![p] = "slow"]
  /\ UNCHANGED <<dirs, temp, cacheValid, cachedFiles, now, calls, quota, call, files,
                 err, out, touched, landed, live, expect>>
  /\ UNCHANGED <<lastList, scanned, lastCommit, handlerVars, limiterVars>>

\* a double check that never finds the cache valid
DoubleCheckSkipped == FALSE

\* the double check under the exclusive lock: if s.cacheValid
DoubleCheck == cacheValid

\* the double check finds the cache valid
LFSlowHit(p) ==
  /\ pc[p] = "slow"
  /\ DoubleCheck
  /\ out' = [out EXCEPT ![p] = Inject(cachedFiles)]
  /\ mu' = [mu EXCEPT !.w = WriterAfterUnlock(p)]
  /\ pc' = [pc EXCEPT ![p] = AfterList(p)]
  /\ UNCHANGED <<dirs, temp, cacheValid, cachedFiles, now, calls, quota, call, files,
                 err, touched, landed, live, expect>>
  /\ lastList' = Listed(p, out'[p])
  /\ UNCHANGED scanned
  /\ UNCHANGED <<lastCommit, handlerVars, limiterVars>>

\* the rebuild: scan, sort, s.cachedFiles = files, s.cacheValid = true
LFRebuild(p) ==
  /\ pc[p] = "slow"
  /\ ~DoubleCheck
  /\ \E sorted \in Sorted(Scan) :
       /\ cachedFiles' = sorted
       /\ out' = [out EXCEPT ![p] = Inject(sorted)]
  /\ cacheValid' = TRUE
  /\ mu' = [mu EXCEPT !.w = WriterAfterUnlock(p)]
  /\ pc' = [pc EXCEPT ![p] = AfterList(p)]
  /\ UNCHANGED <<dirs, temp, now, calls, quota, call, files, err, touched, landed,
                 live, expect>>
  /\ lastList' = Listed(p, out'[p])
  /\ scanned' = [scanned EXCEPT ![p] = TRUE]
  /\ UNCHANGED <<lastCommit, handlerVars, limiterVars>>

\* the entries of one category, in order
Filter(sq, c) == SelectSeq(sq, LAMBDA x : x.Category = c)

\* ListFilesByCategory: s.cacheValid = false (no lock held), then the filter
LFCInvalidate(p) ==
  /\ pc[p] = "invalidate"
  /\ cacheValid' = FALSE
  /\ out' = [out EXCEPT ![p] = Filter(@, call[p].category)]
  /\ pc' = [pc EXCEPT ![p] = "done"]
  /\ UNCHANGED <<dirs, temp, mu, cachedFiles, now, calls, quota, call, files, err,
                 touched, landed, live, expect>>
  /\ UNCHANGED <<lastList, scanned, lastCommit, handlerVars, limiterVars>>

\* ------------------------------------------------------ end of a request
\* the handler has answered; the goroutine's locals are gone
Finish(p) ==
  /\ pc[p] = "done"
  /\ pc' = [pc EXCEPT ![p] = "idle"]
  /\ call' = [call EXCEPT ![p] = NoCall]
  /\ files' = [files EXCEPT ![p] = {}]
  /\ err' = [err EXCEPT ![p] = "nil"]
  /\ out' = [out EXCEPT ![p] = <<>>]
  /\ touched' = [touched EXCEPT ![p] = FALSE]
  /\ landed' = [landed EXCEPT ![p] = FALSE]
  /\ expect' = [expect EXCEPT ![p] = {}]
  /\ scanned' = [scanned EXCEPT ![p] = FALSE]
  /\ UNCHANGED <<dirs, temp, mu, cacheValid, cachedFiles, now, calls, quota, live>>
  /\ UNCHANGED <<lastList, lastCommit, handlerVars, limiterVars>>

\* --------------------------------------------------------- RateLimiter
\* cleanup: 5 * time.Minute
CleanupMinutes == 5

\* the cleanup window, and the ticker's period, in instants
CleanupUnits == CleanupMinutes * UnitsPerMinute

\* the last instant of the limiter's clock: the second tick of the ticker
MaxClock == 2 * CleanupUnits

\* int(elapsed.Minutes() * float64(rl.rate))
TokensToAdd(elapsed) == (elapsed * rate) \div UnitsPerMinute

\* the refill: if tokensToAdd > 0, add up to the burst and stamp lastRefill
Refill(b) ==
  LET add == TokensToAdd(rlNow - b.lastRefill)
  IN IF add > 0
     THEN [tokens |-> Min(b.tokens + add, burst), lastRefill |-> rlNow]
     ELSE b

\* a new bucket that is full
FirstTokensFull == burst

\* tokens: rl.burst - 1
FirstTokens == burst - 1

\* a check that always passes
HasTokenAlways(b) == TRUE

\* if bucket.tokens > 0
HasToken(b) == b.tokens > 0

\* history of an identity whose calls are no longer of the two-instant kind
SeenOther == [t0 |-> 0, n0 |-> 0, a0 |-> 0, n1 |-> 0, a1 |-> 0, phase |-> "other"]

\* history at the call that makes the bucket
SeenFirst == [t0 |-> rlNow, n0 |-> 1, a0 |-> 1, n1 |-> 0, a1 |-> 0, phase |-> "burst"]

Bit(ok) == IF ok THEN 1 ELSE 0

\* history after one more call: n0 calls, a0 admitted, all in the instant t0
\* the bucket was made; then, the burst used up, n1 calls, a1 admitted, all
\* one minute later (the counts of calls stop at burst + 1)
SeenNext(g, ok) ==
  IF g.phase = "burst" /\ rlNow = g.t0
  THEN [g EXCEPT !.n0 = Min(@ + 1, burst + 1), !.a0 = @ + Bit(ok)]
  ELSE IF /\ g.phase \in {"burst", "again"}
          /\ g.n0 > burst
          /\ rlNow = g.t0 + UnitsPerMinute
  THEN [g EXCEPT !.phase = "again", !.n1 = Min(@ + 1, burst + 1), !.a1 = @ + Bit(ok)]
  ELSE SeenOther

\* RateLimiter.Allow(ip), under rl.mu
AllowCall(ip) ==
  /\ IF ip \notin DOMAIN clients
     THEN /\ clients' = Put(clients, ip, [tokens |-> FirstTokens, lastRefill |-> rlNow])
          /\ ret' = <<ip, TRUE>>
          /\ seen' = Put(seen, ip, SeenFirst)
     ELSE LET b == Refill(clients[ip])
              ok == HasToken(b)
          IN /\ clients' = [clients EXCEPT ![ip] =
                              IF ok THEN [b EXCEPT !.tokens = @ - 1] ELSE b]
             /\ ret' = <<ip, ok>>
             /\ seen' = [seen EXCEPT ![ip] = SeenNext(@, ok)]
  /\ called' = [called EXCEPT ![ip] = TRUE]
  /\ UNCHANGED <<rate, burst, rlNow>>

\* Allow called on its own
Allow(ip) ==
  /\ AllowCall(ip)
  /\ UNCHANGED <<granted, storeVars, handlerVars>>

\* Allow called on its own, its result tallied
AllowTallied(ip) ==
  /\ AllowCall(ip)
  /\ granted' = [granted EXCEPT ![ip] = @ + Bit(ret'[2])]
  /\ UNCHANGED <<storeVars, handlerVars>>

\* the buckets the sweep keeps: not bucket.lastRefill.Before(cutoff)
Kept == { ip \in DOMAIN clients : ~(clients[ip].lastRefill < rlNow - CleanupUnits) }

\* cleanupLoop: one tick of the ticker
Sweep ==
  /\ rlNow > 0
  /\ rlNow % CleanupUnits = 0
  /\ clients' = [ip \in Kept |-> clients[ip]]
  /\ seen' = [ip \in Kept |-> seen[ip]]
  /\ called' = [ip \in Ips |-> called[ip] /\ ip \in Kept]
  /\ UNCHANGED <<rate, burst, rlNow, ret, granted, storeVars, handlerVars>>

\* the limiter's clock advances
RLTick ==
  /\ rlNow < MaxClock
  /\ rlNow' = rlNow + 1
  /\ called' = IF rlNow % CleanupUnits = 0 THEN [ip \in Ips |-> FALSE] ELSE called
  /\ UNCHANGED <<rate, burst, clients, ret, seen, granted, storeVars, handlerVars>>

\* ------------------------------------------------------- admission gates
\* a send that never blocks
SlotFreeAlways(n, cap) == TRUE

\* s.uploadSem <- struct{}{} goes through when the channel is not full
SlotFree(n, cap) == n < cap

\* a release that takes nothing out
SemAfterReleaseKept(n) == n

\* <-s.uploadSem takes one element out
SemAfterRelease(n) == n - 1

\* Config.IsValidCategory
IsValidCategory(name) == name \in CatNames /\ Categories[name].Enabled

\* ------------------------------------------------------- Handlers.Upload
\* the upload requests: two that pass validation, and one failing each check
UploadRequests ==
  { [category |-> "vanilla", filename |-> "a.zip", parse |-> TRUE, magic |-> TRUE],
    [category |-> "vanilla", filename |-> "c.zip", parse |-> TRUE, magic |-> TRUE],
    [category |-> "nocat", filename |-> "a.zip", parse |-> TRUE, magic |-> TRUE],
    [category |-> "vanilla", filename |-> "a.zip", parse |-> FALSE, magic |-> TRUE],
    [category |-> "vanilla", filename |-> "d.exe", parse |-> TRUE, magic |-> TRUE],
    [category |-> "vanilla", filename |-> "a.zip", parse |-> TRUE, magic |-> FALSE] }

\* a request reaches a handler
HBegin(p, r, at) ==
  /\ hpc[p] = "idle"
  /\ pc[p] = "idle"
  /\ reqs < MaxRequests
  /\ reqs' = reqs + 1
  /\ hreq' = [hreq EXCEPT ![p] = r]
  /\ hstatus' = [hstatus EXCEPT ![p] = 0]
  /\ hpc' = [hpc EXCEPT ![p] = at]
  /\ UNCHANGED <<uploadSem, downloadSem, countVars, storeVars, limiterVars>>

\* a POST reaches Upload
HUploadBegin(p, r) == HBegin(p, r, "up_acquire")

\* h.fileService.AcquireUploadSlot(), defer h.fileService.ReleaseUploadSlot()
HUploadAcquire(p) ==
  /\ hpc[p] = "up_acquire"
  /\ SlotFree(uploadSem, MaxConcurrentUploads)
  /\ uploadSem' = uploadSem + 1
  /\ hpc' = [hpc EXCEPT ![p] = "up_validate"]
  /\ UNCHANGED <<hreq, hstatus, reqs, downloadSem, countVars, storeVars,
                 limiterVars>>

\* the status of the first check the request fails; 0 when it passes all
UploadCheck(r) ==
  IF ~IsValidCategory(r.category) THEN 400
  ELSE IF ~r.parse THEN 413
  ELSE IF ~IsAllowedExtension(Ext(r.filename)) THEN 400
  ELSE IF ~r.magic THEN 400
  ELSE 0

\* a handler that goes on to SaveFile whatever the checks said
AfterValidateOpen(st) == "up_save"

\* sendError and return at the first check that fails
AfterValidate(st) == IF st = 0 THEN "up_save" ELSE "up_exit"

\* category, ParseMultipartForm, extension, ZIP magic bytes
HUploadValidate(p) ==
  /\ hpc[p] = "up_validate"
  /\ hstatus' = [hstatus EXCEPT ![p] = UploadCheck(hreq[p])]
  /\ hpc' = [hpc EXCEPT ![p] = AfterValidate(UploadCheck(hreq[p]))]
  /\ UNCHANGED <<hreq, reqs, uploadSem, downloadSem, countVars, storeVars,
                 limiterVars>>

\* h.fileService.SaveFile(category, safeFilename, file) is called
HUploadSaveFile(p) ==
  /\ hpc[p] = "up_save"
  /\ \/ CreateTempOK(p, hreq[p].category, hreq[p].filename)
     \/ CreateTempFail(p, hreq[p].category, hreq[p].filename)

\* SaveFile has returned: UploadFailed (500) or the success response (200)
HUploadRespond(p) ==
  /\ hpc[p] = "up_save"
  /\ pc[p] = "done"
  /\ hstatus' = [hstatus EXCEPT ![p] = IF err[p] = "nil" THEN 200 ELSE 500]
  /\ hpc' = [hpc EXCEPT ![p] = "up_exit"]
  /\ UNCHANGED <<hreq, reqs, uploadSem, downloadSem, countVars, storeVars,
                 limiterVars>>

\* Upload returns: SaveFile's frame is gone
HUploadReturn(p) ==
  /\ hpc[p] = "up_exit"
  /\ Finish(p)

\* the deferred h.fileService.ReleaseUploadSlot()
HUploadRelease(p) ==
  /\ hpc[p] = "up_exit"
  /\ pc[p] = "idle"
  /\ uploadSem' = SemAfterRelease(uploadSem)
  /\ hpc' = [hpc EXCEPT ![p] = "idle"]
  /\ hreq' = [hreq EXCEPT ![p] = NoReq]
  /\ UNCHANGED <<hstatus, reqs, downloadSem, countVars, storeVars, limiterVars>>

\* ------------------------------------- the middleware before Upload
\* the upload requests with the client's address and whether the API key
\* they carry is the configured one: each upload with the key, one without
EdgeRequests ==
  { r @@ [ip |-> i, auth |-> TRUE] : r \in UploadRequests, i \in Ips } \cup
  { r @@ [ip |-> i, auth |-> FALSE] :
      r \in {x \in UploadRequests : UploadCheck(x) = 0 /\ x.filename = "a.zip"},
      i \in Ips }

\* a POST /upload reaches the RateLimit middleware
HEdgeBegin(p, r) == HBegin(p, r, "rl")

\* a middleware that calls next whatever Allow said
AfterLimitOpen(ok) == "auth"

\* RateLimit: next.ServeHTTP only when Allow said yes
AfterLimit(ok) == IF ok THEN "auth" ELSE "idle"

\* RateLimit: limiter.Allow(ip); 429 and return, or next.ServeHTTP
HRateLimit(p) ==
  /\ hpc[p] = "rl"
  /\ AllowCall(hreq[p].ip)
  /\ hstatus' = [hstatus EXCEPT ![p] = IF ret'[2] THEN 0 ELSE 429]
  /\ hpc' = [hpc EXCEPT ![p] = AfterLimit(ret'[2])]
  /\ hreq' = [hreq EXCEPT ![p] = IF AfterLimit(ret'[2]) = "idle" THEN NoReq ELSE @]
  /\ UNCHANGED <<granted, reqs, uploadSem, downloadSem, countVars, storeVars>>

\* Auth: 401 and return when the key is not the configured one, or next
HAuth(p) ==
  /\ hpc[p] = "auth"
  /\ hstatus' = [hstatus EXCEPT ![p] = IF hreq[p].auth THEN @ ELSE 401]
  /\ hpc' = [hpc EXCEPT ![p] = IF hreq[p].auth THEN "up_acquire" ELSE "idle"]
  /\ hreq' = [hreq EXCEPT ![p] = IF hreq[p].auth THEN @ ELSE NoReq]
  /\ UNCHANGED <<reqs, uploadSem, downloadSem, countVars, storeVars, limiterVars>>

\* ------------------------------------------------ Handlers.ServeDownload
\* the download requests: /downloads/category/filename, and /downloads/x
DownloadRequests ==
  { [category |-> k[1], filename |-> k[2], parse |-> TRUE, magic |-> TRUE] :
      k \in DlKeys \cup {<<"x", "">>} }

\* a GET under /downloads/ reaches the handler
HDownloadBegin(p, r) == HBegin(p, r, "dl_acquire")

\* one channel for both kinds of request
DownloadGateShared == uploadSem + downloadSem

\* the channel AcquireDownloadSlot sends on: s.downloadSem
DownloadGate == downloadSem

\* h.fileService.AcquireDownloadSlot(), defer ...ReleaseDownloadSlot()
HDownloadAcquire(p) ==
  /\ hpc[p] = "dl_acquire"
  /\ SlotFree(DownloadGate, MaxConcurrentDownloads)
  /\ downloadSem' = downloadSem + 1
  /\ hpc' = [hpc EXCEPT ![p] = "dl_count"]
  /\ UNCHANGED <<hreq, hstatus, reqs, uploadSem, countVars, storeVars,
                 limiterVars>>

\* len(parts) >= 2: h.fileService.IncrementDownloadCount(key)
HDownloadCount(p) ==
  /\ hpc[p] = "dl_count"
  /\ hreq[p].filename # ""
  /\ IDCBegin(p, Key(hreq[p].category, hreq[p].filename))

\* IncrementDownloadCount has returned
HDownloadCounted(p) ==
  /\ hpc[p] = "dl_count"
  /\ pc[p] = "done"
  /\ hpc' = [hpc EXCEPT ![p] = "dl_serve"]
  /\ UNCHANGED <<hreq, hstatus, reqs, uploadSem, downloadSem, countVars, storeVars,
                 limiterVars>>

\* len(parts) < 2: nothing is counted
HDownloadSkip(p) ==
  /\ hpc[p] = "dl_count"
  /\ hreq[p].filename = ""
  /\ hpc' = [hpc EXCEPT ![p] = "dl_serve"]
  /\ UNCHANGED <<hreq, hstatus, reqs, uploadSem, downloadSem, countVars,
                 storeVars, limiterVars>>

\* http.FileServer serves the file, or answers 404
HDownloadServe(p) ==
  /\ hpc[p] = "dl_serve"
  /\ hstatus' = [hstatus EXCEPT ![p] =
                   IF /\ hreq[p].category \in CatNames
                      /\ Exists(dirs[hreq[p].category], hreq[p].filename)
                   THEN 200 ELSE 404]
  /\ hpc' = [hpc EXCEPT ![p] = "dl_exit"]
  /\ UNCHANGED <<hreq, reqs, uploadSem, downloadSem, countVars, storeVars,
                 limiterVars>>

\* ServeDownload returns: IncrementDownloadCount's frame is gone
HDownloadReturn(p) ==
  /\ hpc[p] = "dl_exit"
  /\ Finish(p)

\* the deferred h.fileService.ReleaseDownloadSlot()
HDownloadRelease(p) ==
  /\ hpc[p] = "dl_exit"
  /\ pc[p] = "idle"
  /\ downloadSem' = SemAfterRelease(downloadSem)
  /\ hpc' = [hpc EXCEPT ![p] = "idle"]
  /\ hreq' = [hreq EXCEPT ![p] = NoReq]
  /\ UNCHANGED <<hstatus, reqs, uploadSem, countVars, storeVars, limiterVars>>

\* ------------------------------- Handlers.ListFiles, Handlers.Delete
\* GET /list, and the DELETE requests that pass the handler's checks
StoreRequests ==
  { [category |-> "", filename |-> "", parse |-> TRUE, magic |-> TRUE],
    [category |-> "vanilla", filename |-> "a.zip", parse |-> TRUE, magic |-> TRUE] }

\* a request reaches ListFiles or Delete
HStoreBegin(p, r) == HBegin(p, r, "st_call")

\* h.fileService.ListFiles(), or h.fileService.DeleteFile(category, filename)
HStoreCall(p) ==
  /\ hpc[p] = "st_call"
  /\ IF hreq[p].filename = "" THEN ListBegin(p, "ListFiles", "")
     ELSE DeleteLock(p, hreq[p].category, hreq[p].filename)

\* the call has returned: sendJSON, or sendError
HStoreRespond(p) ==
  /\ hpc[p] = "st_call"
  /\ pc[p] = "done"
  /\ hstatus' = [hstatus EXCEPT ![p] = IF err[p] = "nil" THEN 200 ELSE 404]
  /\ hpc' = [hpc EXCEPT ![p] = "st_exit"]
  /\ UNCHANGED <<hreq, reqs, uploadSem, downloadSem, countVars, storeVars,
                 limiterVars>>

\* the handler returns: the call's frame is gone
HStoreReturn(p) ==
  /\ hpc[p] = "st_exit"
  /\ Finish(p)

\* the goroutine is parked again
HStoreEnd(p) ==
  /\ hpc[p] = "st_exit"
  /\ pc[p] = "idle"
  /\ hpc' = [hpc EXCEPT ![p] = "idle"]
  /\ hreq' = [hreq EXCEPT ![p] = NoReq]
  /\ UNCHANGED <<hstatus, reqs, uploadSem, downloadSem, countVars, storeVars,
                 limiterVars>>

\* --------------------------------------------------------------- clock
\* the pcs whose next step writes a file and stamps its mtime
WritePcs == {"stream", "move", "mm_copy"}

\* time passes; only the instants of writes are observed
Tick ==
  /\ now < MaxTime
  /\ \E p \in Procs : pc[p] \in WritePcs
  /\ now' = now + 1
  /\ UNCHANGED <<dirs, temp, mu, cacheValid, cachedFiles, calls, quota, pc, call,
                 files, err, out, touched, landed, live, expect>>
  /\ UNCHANGED <<lastList, scanned, lastCommit, handlerVars, limiterVars>>

\* ---------------------------------------------------------------- Next
\* the steps of SaveFile with no storage fault
SaveFileStep(p) ==
  \/ StreamChunk(p) \/ Lock(p) \/ EnforceScan(p) \/ EvictOK(p) \/ RenameOK(p)
  \/ Unlock(p) \/ Cleanup(p)

\* the steps of SaveFile after a storage fault, and manualMove
SaveFileFault(p) ==
  \/ StreamFail(p) \/ EvictFail(p) \/ RenameFail(p)
  \/ MMOpenFail(p) \/ MMCreate(p) \/ MMCopyChunk(p) \/ MMCopyFail(p)
  \/ MMSync(p) \/ MMSyncFail(p) \/ MMRemove(p) \/ MMRemoveFail(p)

DeleteStep(p) ==
  \/ DeleteNotFound(p) \/ DeleteRemove(p) \/ DeleteRemoveFail(p)

ListStep(p) ==
  \/ LFRLock(p) \/ LFFastHit(p) \/ LFFastMiss(p) \/ LFLock(p)
  \/ LFSlowHit(p) \/ LFRebuild(p) \/ LFCInvalidate(p)

\* the requests a goroutine may begin
Request(p) ==
  \/ \E t \in Targets :
       \/ CreateTempOK(p, t[1], t[2]) \/ CreateTempFail(p, t[1], t[2])
       \/ DeleteLock(p, t[1], t[2])
       \/ GetFilePath(p, t[1], t[2])
  \/ ListBegin(p, "ListFiles", "")
  \/ \E c \in CatNames : ListBegin(p, "ListFilesByCategory", c)

Next ==
  \/ Tick
  \/ \E p \in Procs :
       \/ Request(p)
       \/ SaveFileStep(p) \/ SaveFileFault(p)
       \/ DeleteStep(p) \/ ListStep(p)
       \/ Finish(p)

Spec == Init /\ [][Next]_vars

\* ------------------------------------------- uploads after a lowered limit
\* max_files was lowered while the service was down: vanilla starts with
\* one file more than its limit
InitOverfull ==
  /\ dirs = StartDirs(Names)
  /\ quota = MaxCalls
  /\ InitRest

NextUpload ==
  \/ Tick
  \/ \E p \in Procs :
       \/ \E f \in Names :
            CreateTempOK(p, "vanilla", f) \/ CreateTempFail(p, "vanilla", f)
       \/ SaveFileStep(p) \/ SaveFileFault(p)
       \/ Finish(p)

SpecOverfull == InitOverfull /\ [][NextUpload]_vars

\* ------------------------------------------------ uploads and listings
InitList ==
  /\ dirs = StartDirs({"a.zip"})
  /\ quota = MaxCalls + 1
  /\ InitRest

NextList ==
  \/ Tick
  \/ \E p \in Procs :
       \/ \E t \in Targets :
            CreateTempOK(p, t[1], t[2]) \/ DeleteLock(p, t[1], t[2])
       \/ ListBegin(p, "ListFiles", "")
       \/ \E c \in CatNames : ListBegin(p, "ListFilesByCategory", c)
       \/ SaveFileStep(p) \/ DeleteStep(p) \/ ListStep(p)
       \/ Finish(p)

SpecList == InitList /\ [][NextList]_vars

\* ------------------------------------- uploads one after another, no fault
\* the filenames uploaded, in order
UploadOrder == <<"a.zip", "b.zip", "c.zip">>

InitSeq ==
  /\ dirs = StartDirs({})
  /\ quota = MaxCalls + 1
  /\ InitRest

\* the next upload of the sequence begins, the one before it having returned
SeqUpload(p) ==
  /\ calls < Len(UploadOrder)
  /\ \A q \in Procs : pc[q] = "idle"
  /\ CreateTempOK(p, "vanilla", UploadOrder[calls + 1])

\* the upload's last write is later than every write before it
SeqStreamChunk(p) ==
  /\ \A f \in DOMAIN dirs["vanilla"] : dirs["vanilla"][f].mtime < now
  /\ StreamChunk(p)

NextSeq ==
  \/ Tick
  \/ \E p \in Procs :
       \/ SeqUpload(p) \/ SeqStreamChunk(p)
       \/ Lock(p) \/ EnforceScan(p) \/ EvictOK(p) \/ RenameOK(p)
       \/ Unlock(p) \/ Cleanup(p) \/ Finish(p)

SpecSeq == InitSeq /\ [][NextSeq]_vars

\* -------------------------------- two uploads to one category, no fault
\* a goroutine uploads once
UploadOnce(p) == \E f \in Names : CreateTempOK(p, "vanilla", f)

TwoStep(p) == UploadOnce(p) \/ SaveFileStep(p)

NextTwo == Tick \/ \E p \in Procs : TwoStep(p)

\* the Go scheduler runs every runnable goroutine, and a goroutine waiting
\* in Lock gets the mutex once it stays free
SpecTwo ==
  /\ Init
  /\ [][NextTwo]_vars
  /\ \A p \in Procs : WF_vars(TwoStep(p))

\* ------------------- uploads to one category that overlap, no fault
NextCommit ==
  \/ Tick
  \/ \E p \in Procs : UploadOnce(p) \/ SaveFileStep(p) \/ Finish(p)

SpecCommit == InitSeq /\ [][NextCommit]_vars

\* ------------------------------------ upload and download requests
InitGate ==
  /\ dirs = StartDirs({"a.zip", "b.zip"})
  /\ quota = MaxRequests
  /\ InitRest

UploadStep(p) ==
  \/ \E r \in UploadRequests : HUploadBegin(p, r)
  \/ HUploadAcquire(p) \/ HUploadValidate(p) \/ HUploadSaveFile(p)
  \/ SaveFileStep(p) \/ SaveFileFault(p)
  \/ HUploadRespond(p) \/ HUploadReturn(p) \/ HUploadRelease(p)

DownloadStep(p) ==
  \/ \E r \in DownloadRequests : HDownloadBegin(p, r)
  \/ HDownloadAcquire(p) \/ HDownloadCount(p) \/ IDCLock(p) \/ IDCStore(p)
  \/ HDownloadCounted(p) \/ HDownloadSkip(p)
  \/ HDownloadServe(p) \/ HDownloadReturn(p) \/ HDownloadRelease(p)

NextGate == Tick \/ \E p \in Procs : UploadStep(p) \/ DownloadStep(p)

SpecGate == InitGate /\ [][NextGate]_vars

\* ---------------------------------- downloads alone: the directories stay
NextDownload == \E p \in Procs : DownloadStep(p)

SpecDownload == InitGate /\ [][NextDownload]_vars

\* ------------------------------------------------------ the rate limiter
\* NewRateLimiter with a burst of at least 1
InitLimited ==
  /\ dirs = StartDirs({})
  /\ quota = MaxCalls
  /\ InitHandlers
  /\ \E r \in 0..MaxRate, b \in 1..MaxBurst : InitLimiter(r, b)
  /\ lastList = <<>>
  /\ scanned = [p \in Procs |-> FALSE]
  /\ lastCommit = [c \in CatNames |-> ""]
  /\ InitStore

NextLimiter == RLTick \/ Sweep \/ \E ip \in Ips : Allow(ip)

SpecLimiter == InitLimited /\ [][NextLimiter]_vars

\* ------------------------------------ the rate limiter, every grant tallied
\* NewRateLimiter with a rate of at most one request per minute
InitRate ==
  /\ InitLimited
  /\ rate <= 1

NextRate == RLTick \/ Sweep \/ \E ip \in Ips : AllowTallied(ip)

SpecRate == InitRate /\ [][NextRate]_vars

\* ------------------------------ calls one after another, no storage fault
InitIdem ==
  /\ dirs = StartDirs({"a.zip"})
  /\ quota = MaxCalls + 2
  /\ InitRest

\* the next call begins, the one before it having returned
IdemCall(p) ==
  /\ \A q \in Procs : pc[q] = "idle"
  /\ \/ \E t \in Targets :
          CreateTempOK(p, t[1], t[2]) \/ DeleteLock(p, t[1], t[2])
     \/ ListBegin(p, "ListFiles", "")
     \/ \E c \in CatNames : ListBegin(p, "ListFilesByCategory", c)

NextIdem ==
  \/ Tick
  \/ \E p \in Procs :
       \/ IdemCall(p)
       \/ SaveFileStep(p)
       \/ DeleteNotFound(p) \/ DeleteRemove(p)
       \/ LFRLock(p) \/ LFFastHit(p) \/ LFFastMiss(p) \/ LFLock(p)
       \/ LFRebuild(p) \/ LFCInvalidate(p)
       \/ Finish(p)

SpecIdem == InitIdem /\ [][NextIdem]_vars

\* ------------------------------- download counts beside the other calls
InitCount ==
  /\ dirs = StartDirs({"a.zip"})
  /\ quota = MaxCalls + 2
  /\ InitRest

\* the calls a goroutine may begin
CountCall(p) ==
  \/ \E k \in DlKeys : IDCBegin(p, k)
  \/ ListBegin(p, "ListFiles", "")
  \/ \E k \in DlKeys : CreateTempOK(p, k[1], k[2]) \/ DeleteLock(p, k[1], k[2])

NextCount ==
  \/ FlushSnapshot \/ FlushWrite
  \/ \E p \in Procs :
       \/ CountCall(p)
       \/ IDCLock(p) \/ IDCStore(p)
       \/ SaveFileStep(p)
       \/ DeleteNotFound(p) \/ DeleteRemove(p)
       \/ LFRLock(p) \/ LFFastHit(p) \/ LFFastMiss(p) \/ LFLock(p)
       \/ LFSlowHit(p) \/ LFRebuild(p)
       \/ Finish(p)

SpecCount == InitCount /\ [][NextCount]_vars

\* ------------------------------- upload requests through the middleware
InitEdge ==
  /\ dirs = StartDirs({})
  /\ quota = MaxRequests
  /\ InitHandlers
  /\ \E b \in 1..MaxBurst : InitLimiter(1, b)
  /\ lastList = <<>>
  /\ scanned = [p \in Procs |-> FALSE]
  /\ lastCommit = [c \in CatNames |-> ""]
  /\ InitStore

\* ListFiles is called by a goroutine that handles no upload
EdgeList(p) ==
  /\ hpc[p] = "idle"
  /\ \/ ListBegin(p, "ListFiles", "")
     \/ Finish(p)

EdgeStep(p) ==
  \/ \E r \in EdgeRequests : HEdgeBegin(p, r)
  \/ EdgeList(p)
  \/ LFRLock(p) \/ LFFastHit(p) \/ LFFastMiss(p) \/ LFLock(p)
  \/ LFSlowHit(p) \/ LFRebuild(p)
  \/ HRateLimit(p) \/ HAuth(p)
  \/ HUploadAcquire(p) \/ HUploadValidate(p) \/ HUploadSaveFile(p)
  \/ SaveFileStep(p)
  \/ HUploadRespond(p) \/ HUploadReturn(p) \/ HUploadRelease(p)

NextEdge == \E p \in Procs : EdgeStep(p)

SpecEdge == InitEdge /\ [][NextEdge]_vars

\* ------------------------------------- ListFiles calls, no invalidation
InitRebuild ==
  /\ dirs \in {StartDirs({}), StartDirs({"a.zip"}), StartDirs({"a.zip", "b.zip"})}
  /\ quota = MaxCalls + 1
  /\ InitRest

NextRebuild ==
  \E p \in Procs :
    \/ ListBegin(p, "ListFiles", "")
    \/ LFRLock(p) \/ LFFastHit(p) \/ LFFastMiss(p) \/ LFLock(p)
    \/ LFSlowHit(p) \/ LFRebuild(p)
    \/ Finish(p)

SpecRebuild == InitRebuild /\ [][NextRebuild]_vars

\* ------------------------------ requests without end, none reaching the store
\* the requests that take a slot and call nothing of the store: the uploads
\* that fail a check, and GET /downloads/x
WaitUploads == {r \in UploadRequests : UploadCheck(r) # 0}

WaitDownloads == {r \in DownloadRequests : r.filename = ""}

\* a request reaches a handler; the requests are not counted
HAgain(p, r, at) ==
  /\ hpc[p] = "idle"
  /\ pc[p] = "idle"
  /\ hreq' = [hreq EXCEPT ![p] = r]
  /\ hstatus' = [hstatus EXCEPT ![p] = 0]
  /\ hpc' = [hpc EXCEPT ![p] = at]
  /\ UNCHANGED <<reqs, uploadSem, downloadSem, countVars, storeVars, limiterVars>>

WaitBegin(p) ==
  \/ \E r \in WaitUploads : HAgain(p, r, "up_acquire")
  \/ \E r \in WaitDownloads : HAgain(p, r, "dl_acquire")

\* the steps of a handler that holds a slot
WaitInside(p) ==
  \/ HUploadValidate(p) \/ HUploadRelease(p)
  \/ HDownloadSkip(p) \/ HDownloadServe(p) \/ HDownloadRelease(p)

NextWait ==
  \E p \in Procs :
    WaitBegin(p) \/ HUploadAcquire(p) \/ HDownloadAcquire(p) \/ WaitInside(p)

\* a handler that holds a slot goes on to its end; the senders blocked on a
\* full channel are served first come, first served as slots are released
SpecWait ==
  /\ InitGate
  /\ [][NextWait]_vars
  /\ \A p \in Procs :
       /\ WF_vars(WaitInside(p))
       /\ SF_vars(HUploadAcquire(p))
       /\ SF_vars(HDownloadAcquire(p))

\* --------------- uploads, downloads, listings, deletes and counter flushes
\* the requests
MixBegin(p) ==
  \/ \E r \in {x \in UploadRequests : UploadCheck(x) = 0} : HUploadBegin(p, r)
  \/ \E r \in DownloadRequests : HDownloadBegin(p, r)
  \/ \E r \in StoreRequests : HStoreBegin(p, r)

\* the steps of a request that has begun
MixStep(p) ==
  \/ HUploadAcquire(p) \/ HUploadValidate(p) \/ HUploadSaveFile(p)
  \/ SaveFileStep(p)
  \/ HUploadRespond(p) \/ HUploadReturn(p) \/ HUploadRelease(p)
  \/ HDownloadAcquire(p) \/ HDownloadCount(p) \/ IDCLock(p) \/ IDCStore(p)
  \/ HDownloadCounted(p) \/ HDownloadSkip(p)
  \/ HDownloadServe(p) \/ HDownloadReturn(p) \/ HDownloadRelease(p)
  \/ HStoreCall(p) \/ DeleteNotFound(p) \/ DeleteRemove(p)
  \/ LFRLock(p) \/ LFFastHit(p) \/ LFFastMiss(p) \/ LFLock(p)
  \/ LFSlowHit(p) \/ LFRebuild(p)
  \/ HStoreRespond(p) \/ HStoreReturn(p) \/ HStoreEnd(p)

NextMix ==
  \/ FlushSnapshot \/ FlushWrite
  \/ \E p \in Procs : MixBegin(p) \/ MixStep(p)

SpecMix == InitGate /\ [][NextMix]_vars

\* ---------------------------------------------------------------- claims
Count(c) == Cardinality(DOMAIN dirs[c])

\* os.Stat(filePath) finds the file
Stat(c, f) == Exists(dirs[c], f)

\* SaveFile between s.mu.Lock() and the deferred s.mu.Unlock()
CommitPcs ==
  {"enforce", "evict", "move", "mm_copy", "mm_sync", "mm_remove", "unlock"}

Returned(p, op) == pc[p] = "done" /\ call[p].op = op

C2_LastUploadsRemain ==
  (\A p \in Procs : pc[p] \in {"idle", "done"}) =>
    DOMAIN dirs["vanilla"] =
      { UploadOrder[i] : i \in (calls - Min(calls, MaxFiles) + 1)..calls }

\* C3: what a reader finds at the path GetFilePath returned is a complete
\* artifact, never a truncated or partly written one.
C3_ReaderSeesCompleteFile ==
  \A p \in Procs :
    (Returned(p, "GetFilePath") /\ err[p] = "nil") => out[p][1].len = FileLen

\* C4: a file saved with success and not evicted or deleted since is found
\* by GetFilePath and is in every ListFilesByCategory result of a call begun
\* after the save returned.
C4_SavedFileIsListed ==
  /\ \A t \in live : Stat(t[1], t[2])
  /\ \A p \in Procs :
       Returned(p, "ListFilesByCategory") =>
         \A t \in expect[p] :
           t[1] = call[p].category =>
             \E i \in 1..Len(out[p]) : out[p][i].Filename = t[2]

\* C5: from the retention step of one SaveFile to its move into place no
\* other SaveFile is in its retention or move and no DeleteFile is at work,
\* and whatever changes a category directory is a step of the lock's holder.
C5_CommitAtomic ==
  /\ [](\A p, q \in Procs :
          (p # q /\ pc[p] \in CommitPcs) => pc[q] \notin CommitPcs \cup {"delete"})
  /\ [][dirs' # dirs =>
          /\ mu.w \in Procs
          /\ pc[mu.w] \in CommitPcs \cup {"delete"}
          /\ \A q \in Procs \ {mu.w} : pc'[q] = pc[q]]_vars

\* a SaveFile has evicted a file and not yet moved its own in, while
\* another SaveFile waits for the lock
C5_Witness ==
  \E p, q \in Procs :
    /\ p # q
    /\ pc[p] = "evict" /\ touched[p]
    /\ pc[q] = "lock"

\* both uploads have returned success, the category is within its limit and
\* every file in it is the complete content of a start file or of one upload
TwoUploadsSettled ==
  /\ \A p \in Procs : Returned(p, "SaveFile") /\ err[p] = "nil"
  /\ Count("vanilla") <= MaxFiles
  /\ \A f \in DOMAIN dirs["vanilla"] :
       /\ dirs["vanilla"][f].len = FileLen
       /\ \/ dirs["vanilla"][f].data = 0
          \/ \E p \in Procs :
               call[p].id = dirs["vanilla"][f].data /\ call[p].filename = f

\* C6: two SaveFile calls to one category, running concurrently with no
\* storage fault, both return success in the end, and then the category is
\* within its limit and every file is the complete content of one upload.
C6_TwoUploadsSucceed == <>[]TwoUploadsSettled

\* both uploads, of one filename into the full category, are settled
C6_Witness ==
  /\ TwoUploadsSettled
  /\ call[1].filename = call[2].filename
  /\ Count("vanilla") = MaxFiles

\* C7: a SaveFile that fails at os.CreateTemp or while streaming has changed
\* no category directory.
C7_EarlyFailureTouchesNothing ==
  \A p \in Procs :
    (/\ pc[p] \in {"cleanup", "done"}
     /\ call[p].op = "SaveFile"
     /\ err[p] \in {"create temp", "write"}) => ~touched[p]

\* the stream broke after the first chunk (the client went away)
C7_Witness ==
  \E p \in Procs :
    /\ pc[p] = "cleanup" /\ err[p] = "write"
    /\ Exists(temp, p) /\ temp[p].len = 1

\* C8: a SaveFile that fails at the move step has changed no category
\* directory: what retention removed is still there and nothing new or
\* partial is at the final path.
C8_MoveFailureTouchesNothing ==
  \A p \in Procs :
    (Returned(p, "SaveFile") /\ err[p] = "save") => ~touched[p]

\* C9: a SaveFile whose retention step fails at a deletion has removed no
\* file of the category and has not moved the new file in.
C9_NoPartialEviction ==
  \A p \in Procs :
    (Returned(p, "SaveFile") /\ err[p] = "limit") => ~touched[p]

C11_SaveFileInvalidatesCache ==
  \A p \in Procs : pc[p] = "unlock" => ~cacheValid

\* C12: while a DeleteFile holds the lock, and when it returns (the file
\* removed, not found, or the removal failed), the listing cache is invalid.
C12_DeleteInvalidatesCache ==
  /\ [](\A p \in Procs : pc[p] = "delete" => ~cacheValid)
  /\ [][\A p \in Procs :
          (pc[p] = "delete" /\ pc'[p] = "done") => ~cacheValid']_vars

\* a ListFiles made the cache valid, then a DeleteFile failed at os.Remove:
\* the cache is invalid
C12_Witness ==
  \E p, q \in Procs :
    /\ Returned(q, "ListFiles") /\ Len(out[q]) > 0
    /\ Returned(p, "DeleteFile") /\ err[p] = "remove"
    /\ call[q].id < call[p].id
    /\ ~cacheValid

\* the allowed-extension files in the enabled categories' directories
OnDisk ==
  UNION { { <<c, f>> : f \in {y \in DOMAIN dirs[c] : IsAllowedExtension(Ext(y))} } :
          c \in {x \in CatNames : Categories[x].Enabled} }

\* C13: whenever the cache is valid and nobody holds the exclusive lock, the
\* (category, filename) entries of the snapshot are the files on disk.
C13_CacheCoherent ==
  (cacheValid /\ mu.w = None) =>
    { <<x.Category, x.Filename>> : x \in Artifacts(cachedFiles) } = OnDisk


\* C14: a ListFiles that returns while lastList holds the result of the
\* ListFiles before it (no SaveFile or DeleteFile began or ran since that
\* one returned) returns the same set of artifacts.
C14_ListFilesIdempotent ==
  [][\A p \in Procs :
       (/\ pc[p] \in {"fast", "slow"}
        /\ pc'[p] \in {"invalidate", "done"}
        /\ lastList # <<>>) => Artifacts(out'[p]) = lastList[1]]_vars

\* the file's last-modified time, in Unix seconds
ModTime(x) == Unix(dirs[x.Category][x.Filename].mtime)

\* C15: the result of a ListFiles that rebuilt the cache is ordered by
\* last-modified time descending, to the second.
C15_NewestFirst ==
  [][\A p \in Procs :
       (pc[p] = "slow" /\ ~cacheValid /\ pc'[p] # "slow") =>
         \A i, j \in 1..Len(out'[p]) :
           i < j => ModTime(out'[p][i]) >= ModTime(out'[p][j])]_vars


\* C16: a DeleteFile or GetFilePath that finds no file at its path returns
\* "file not found", and neither call has then changed a directory entry.
C16_MissingFileNotFound ==
  /\ [](\A p \in Procs :
          (/\ Returned(p, "DeleteFile") \/ Returned(p, "GetFilePath")
           /\ err[p] = "file not found") => ~touched[p])
  /\ [][\A p \in Procs :
          (/\ pc[p] = "delete" /\ pc'[p] = "done"
           /\ ~Stat(call[p].category, call[p].filename)) =>
            err'[p] = "file not found" /\ dirs' = dirs]_vars
  /\ [][\A p \in Procs :
          (/\ pc[p] = "idle" /\ pc'[p] = "done" /\ call'[p].op = "GetFilePath"
           /\ ~Stat(call'[p].category, call'[p].filename)) =>
            err'[p] = "file not found" /\ dirs' = dirs]_vars

\* DeleteFile and GetFilePath of c.zip, which the full category does not
\* hold, have both returned not found
C16_Witness ==
  \E p, q \in Procs :
    /\ Returned(p, "DeleteFile") /\ err[p] = "file not found"
    /\ Returned(q, "GetFilePath") /\ err[q] = "file not found"
    /\ call[p].filename = "c.zip" /\ call[q].filename = "c.zip"
    /\ DOMAIN dirs["vanilla"] = {"a.zip", "b.zip"}


\* the handler positions between AcquireUploadSlot and ReleaseUploadSlot
UploadInside == {"up_validate", "up_save", "up_exit"}

\* the handler positions between AcquireDownloadSlot and ReleaseDownloadSlot
DownloadInside == {"dl_count", "dl_serve", "dl_exit"}

Inside(S) == Cardinality({p \in Procs : hpc[p] \in S})

\* C17: at most MaxConcurrentUploads requests are between AcquireUploadSlot
\* and ReleaseUploadSlot, and at most MaxConcurrentDownloads between
\* AcquireDownloadSlot and ReleaseDownloadSlot.
C17_GateBound ==
  /\ Inside(UploadInside) <= MaxConcurrentUploads
  /\ uploadSem <= MaxConcurrentUploads
  /\ Inside(DownloadInside) <= MaxConcurrentDownloads
  /\ downloadSem <= MaxConcurrentDownloads

\* the upload gate is full, its holder is in SaveFile's critical section,
\* and another upload waits in AcquireUploadSlot
C17_Witness ==
  \E p, q \in Procs :
    /\ hpc[p] = "up_save" /\ pc[p] \in CommitPcs
    /\ hpc[q] = "up_acquire"
    /\ uploadSem = MaxConcurrentUploads

\* C18: each gate holds exactly one slot per request between its acquire
\* and its release, whatever exit the handler took; with every request
\* finished both gates hold none.
C18_SlotReleased ==
  /\ uploadSem = Inside(UploadInside)
  /\ downloadSem = Inside(DownloadInside)
  /\ (\A p \in Procs : hpc[p] = "idle") => uploadSem = 0 /\ downloadSem = 0

\* every request has finished: an upload left on a storage fault, another
\* on a parse error, and a download was served
C18_Witness ==
  /\ \A p \in Procs : hpc[p] = "idle"
  /\ reqs = MaxRequests
  /\ \E p, q \in Procs : hstatus[p] = 500 /\ hstatus[q] = 413
  /\ \E k \in DlKeys : downloadCounts[k] > 0


\* C19: of the calls an identity makes in the instant its bucket is made,
\* the first burst are admitted and no more; of those it makes exactly one
\* minute later, having made more than burst calls and none in between, the
\* first min(rate, burst) are admitted and no more.
C19_TokenBucket ==
  \A ip \in DOMAIN seen :
    /\ seen[ip].phase \in {"burst", "again"} =>
         seen[ip].a0 = Min(seen[ip].n0, burst)
    /\ seen[ip].phase = "again" =>
         seen[ip].a1 = Min(seen[ip].n1, Min(rate, burst))

\* burst 2, rate 1: three calls in one instant, two admitted; one minute
\* later two calls, one admitted
C19_Witness ==
  /\ burst = 2 /\ rate = 1
  /\ \E ip \in DOMAIN seen :
       /\ seen[ip].phase = "again"
       /\ seen[ip].n0 = 3 /\ seen[ip].a0 = 2
       /\ seen[ip].n1 = 2 /\ seen[ip].a1 = 1

\* C20: every bucket holds between 0 and burst tokens, and an Allow call
\* returns true exactly when the identity had no bucket or its bucket,
\* refilled, held at least one token.
C20_TokensWithinBurst ==
  /\ [](\A ip \in DOMAIN clients :
          clients[ip].tokens >= 0 /\ clients[ip].tokens <= burst)
  /\ [][\A ip \in Ips :
          Allow(ip) =>
            (ret'[2] <=> (\/ ip \notin DOMAIN clients
                          \/ Refill(clients[ip]).tokens >= 1))]_vars

\* a bucket made at an earlier instant was refilled to the burst and the
\* call admitted, while the other identity's bucket is empty
C20_Witness ==
  \E ip, jp \in DOMAIN clients :
    /\ ip # jp
    /\ burst = 2
    /\ seen[ip].phase # "burst"
    /\ clients[ip].tokens = burst - 1
    /\ clients[ip].lastRefill = rlNow /\ rlNow > 0
    /\ ret = <<ip, TRUE>>
    /\ clients[jp].tokens = 0


\* C21: a bucket the sweep removes is of an identity that made no Allow
\* call after the previous tick of the ticker, one cleanup window before.
C21_SweepSparesActive ==
  [][\A ip \in DOMAIN clients :
       ip \notin DOMAIN clients' => ~called[ip]]_vars


\* C22: a download counter never decreases, and every counter equals the
\* number of IncrementDownloadCount calls for its key that have returned,
\* whatever ListFiles, SaveFile and DeleteFile calls ran beside them.
C22_CounterExact ==
  [][\A k \in DlKeys :
       /\ downloadCounts'[k] >= downloadCounts[k]
       /\ downloadCounts'[k] = incs'[k]]_vars

\* two increments of one key and one of the other have returned
C22_Witness ==
  \E k, j \in DlKeys :
    /\ k # j
    /\ incs[k] = 2 /\ downloadCounts[k] = 2
    /\ incs[j] = 1 /\ downloadCounts[j] = 1

\* every saveStats goroutine has written its file
FlushesDone == flush.pending = 0 /\ flush.data = {}

\* no IncrementDownloadCount call is between its start and its return
NoIncrement ==
  \A p \in Procs :
    call[p].op = "IncrementDownloadCount" => pc[p] \in {"idle", "done"}

\* C23: when every flush has completed and no increment is in progress,
\* stats.json holds the in-memory counters.
C23_FlushedFileCurrent ==
  (FlushesDone /\ NoIncrement) => statsFile = downloadCounts

\* the increments of (c, f) that have returned
Completed(c, f) == IF Key(c, f) \in DOMAIN incs THEN incs[Key(c, f)] ELSE 0

\* C24: every entry of every ListFiles result carries the number of
\* increments of its key that have returned; a ListFiles that finds the
\* cache valid scans nothing and returns the cached entries.
C24_LiveCounts ==
  [][\A p \in Procs :
       (pc[p] \in {"fast", "slow"} /\ pc'[p] \in {"done", "invalidate"}) =>
         /\ \A i \in 1..Len(out'[p]) :
              out'[p][i].Downloads =
                Completed(out'[p][i].Category, out'[p][i].Filename)
         /\ cacheValid =>
              /\ cachedFiles' = cachedFiles
              /\ ~scanned'[p]
              /\ Artifacts(out'[p]) = Artifacts(cachedFiles)]_vars

\* a ListFiles answered from the cache, with no scan, shows a download
\* counted after the cache was built
C24_Witness ==
  \E p \in Procs :
    /\ Returned(p, "ListFiles") /\ ~scanned[p]
    /\ \E i \in 1..Len(out[p]) :
         /\ out[p][i].Downloads > 0
         /\ cachedFiles[i].Downloads = 0

\* q holds the exclusive lock and its next step is filesystem I/O
LockedIO(q) ==
  /\ mu.w = q
  /\ \/ pc[q] \in CommitPcs \ {"unlock"}
     \/ pc[q] = "delete"
     \/ pc[q] = "slow" /\ ~cacheValid

\* C25: no IncrementDownloadCount waits at its s.mu.Lock() while the
\* lock's holder does filesystem I/O.
C25_IncrementNeverWaitsForIO ==
  \A p \in Procs : pc[p] = "idc_lock" => \A q \in Procs : ~LockedIO(q)

\* C26: a request the rate limiter or the authentication rejected is
\* outside the upload gate and has no SaveFile call and no temp file; the
\* step that rejects it changes neither the gates nor the store; a slot is
\* acquired, and SaveFile is called, only for a request not rejected.
C26_RejectedBeforeGate ==
  /\ [](\A p \in Procs :
          hstatus[p] \in {429, 401} =>
            /\ hpc[p] \notin UploadInside
            /\ call[p].op # "SaveFile"
            /\ ~Exists(temp, p) /\ ~touched[p])
  /\ [][\A p \in Procs :
          /\ (hstatus'[p] \in {429, 401} /\ hstatus[p] = 0) =>
               UNCHANGED <<uploadSem, downloadSem, storeVars>>
          /\ (hpc'[p] \in UploadInside /\ hpc[p] \notin UploadInside) =>
               hstatus[p] = 0 /\ hpc[p] = "up_acquire"
          /\ (call'[p].op = "SaveFile" /\ call[p].op # "SaveFile") =>
               hstatus[p] = 0 /\ hpc[p] = "up_save"]_vars

\* one request was rejected by the limiter, one by the authentication,
\* while an upload holds the slot with its temp file written
C26_Witness ==
  \E p, q \in Procs :
    /\ hstatus[p] \in {429, 401} /\ hpc[p] = "idle"
    /\ hpc[q] = "up_save" /\ Exists(temp, q)
    /\ \E ip \in DOMAIN clients : clients[ip].tokens = 0

\* C27: an upload answered with a validation error has no SaveFile call
\* and no temp file and changed no directory; the step that rejects it
\* leaves the store, the cache state included, as it was; SaveFile is
\* called only for a request that passed every check.
C27_InvalidNeverSaved ==
  /\ [](\A p \in Procs :
          (hpc[p] \in UploadInside /\ hstatus[p] \in {400, 413}) =>
            /\ pc[p] = "idle" /\ call[p] = NoCall
            /\ ~Exists(temp, p) /\ ~touched[p])
  /\ [][\A p \in Procs :
          /\ (hpc[p] = "up_validate" /\ hstatus'[p] \in {400, 413}) =>
               UNCHANGED storeVars
          /\ (call'[p].op = "SaveFile" /\ call[p].op # "SaveFile") =>
               UploadCheck(hreq[p]) = 0]_vars

\* an upload with a wrong ZIP signature was rejected and is about to
\* release its slot, the cache being valid
C27_Witness ==
  \E p \in Procs :
    /\ hpc[p] = "up_exit" /\ hstatus[p] = 400
    /\ ~hreq[p].magic
    /\ cacheValid

\* C28: a SaveFile that is streaming into its temp file, or copying it
\* into place in manualMove, does not hold the exclusive lock.
C28_NoLockWhileCopying ==
  \A p \in Procs : pc[p] \in {"stream", "mm_copy"} => mu.w # p

\* C29: the ListFiles call that scans the category directories holds
\* neither the shared nor the exclusive lock while it scans.
C29_ScanWithoutLock ==
  [][\A p \in Procs :
       (scanned'[p] /\ ~scanned[p]) => (mu.w # p /\ p \notin mu.r)]_vars

\* C30: with no invalidation, the ListFiles calls scan once in all: a scan
\* finds the cache invalid and leaves it valid, the cache stays valid, no
\* two calls in progress have scanned, and every call that has returned
\* returned the artifacts of the one snapshot.
C30_OneRebuild ==
  /\ [](/\ Cardinality({p \in Procs : scanned[p]}) <= 1
        /\ \A p \in Procs :
             Returned(p, "ListFiles") =>
               /\ cacheValid
               /\ Artifacts(out[p]) = Artifacts(cachedFiles)
               /\ \A q \in Procs :
                    Returned(q, "ListFiles") => Artifacts(out[q]) = Artifacts(out[p]))
  /\ [][/\ cacheValid => (cacheValid' /\ cachedFiles' = cachedFiles)
        /\ \A p \in Procs :
             (scanned'[p] /\ ~scanned[p]) => (~cacheValid /\ cacheValid')]_vars

\* one call rebuilt the cache and returned; another, which had found the
\* cache invalid on the fast path, is at the double check
C30_Witness ==
  \E p, q \in Procs :
    /\ Returned(p, "ListFiles") /\ scanned[p] /\ Len(out[p]) > 1
    /\ pc[q] = "slow" /\ cacheValid /\ ~scanned[q]

\* C31: a step that changes the validity flag or the cached snapshot is a
\* step of the goroutine that holds the exclusive lock.
C31_CacheWrittenUnderLock ==
  [][(cacheValid' # cacheValid \/ cachedFiles' # cachedFiles) =>
       \E p \in Procs : pc'[p] # pc[p] /\ (mu.w = p \/ mu'.w = p)]_vars

\* C32: a turn of the retention loop runs only while the category holds
\* max_files files or more and removes a file no younger than any other
\* file of the category; the loop is left with fewer than max_files files.
C32_RetentionContract ==
  [][\A p \in Procs :
       pc[p] = "evict" =>
         LET c == call[p].category IN
           /\ dirs'[c] # dirs[c] /\ pc'[p] = "evict" =>
                /\ Count(c) >= Categories[c].MaxFiles
                /\ \E f \in DOMAIN dirs[c] :
                     /\ dirs'[c] = Del(dirs[c], f)
                     /\ \A g \in DOMAIN dirs[c] :
                          dirs[c][f].mtime <= dirs[c][g].mtime
           /\ pc'[p] \in {"move", "unlock"} /\ err'[p] = "nil" =>
                Count(c) < Categories[c].MaxFiles]_vars

\* C33: a request at AcquireDownloadSlot can acquire whenever fewer than
\* MaxConcurrentDownloads download slots are held, whatever the upload gate
\* holds, and likewise for uploads; a step that changes one gate's held
\* count leaves the other's as it was.
C33_GatesIndependent ==
  /\ [](\A p \in Procs :
          /\ (hpc[p] = "dl_acquire" /\ downloadSem < MaxConcurrentDownloads) =>
               ENABLED HDownloadAcquire(p)
          /\ (hpc[p] = "up_acquire" /\ uploadSem < MaxConcurrentUploads) =>
               ENABLED HUploadAcquire(p))
  /\ [][/\ uploadSem' # uploadSem => downloadSem' = downloadSem
        /\ downloadSem' # downloadSem => uploadSem' = uploadSem]_vars

\* the upload gate is saturated and a download holds a slot
C33_Witness ==
  /\ uploadSem = MaxConcurrentUploads
  /\ \E p, q \in Procs :
       /\ hpc[p] \in UploadInside
       /\ hpc[q] \in DownloadInside /\ downloadSem > 0

\* C34: a request at AcquireUploadSlot or AcquireDownloadSlot is
\* eventually inside its gate.
C34_EventuallyAdmitted ==
  \A p \in Procs :
    /\ (hpc[p] = "up_acquire") ~> (hpc[p] \in UploadInside)
    /\ (hpc[p] = "dl_acquire") ~> (hpc[p] \in DownloadInside)

\* a request waits at AcquireUploadSlot while every upload slot is held
C34_Witness ==
  \E p \in Procs :
    /\ hpc[p] = "up_acquire"
    /\ uploadSem = MaxConcurrentUploads
    /\ Inside(UploadInside) = MaxConcurrentUploads

\* p handles a request
Unfinished(p) == hpc[p] # "idle"

\* p is at a Lock or RLock of the store's mutex
AtStoreLock(p) ==
  \/ pc[p] \in {"lock", "idc_lock", "rlock", "wlock"}
  \/ hpc[p] = "st_call" /\ pc[p] = "idle" /\ hreq[p].filename # ""

\* C35: while a request is unfinished some unfinished request can take a
\* step, and a saveStats goroutine that has not read the counters can when
\* no writer holds the lock; a request that can take no step is at a Lock of
\* the store's mutex or, holding no slot, at AcquireUploadSlot or
\* AcquireDownloadSlot; no holder of the mutex is at one of the two.
C35_NoDeadlock ==
  /\ (\E p \in Procs : Unfinished(p)) =>
       \E p \in Procs : Unfinished(p) /\ ENABLED MixStep(p)
  /\ \A p \in Procs :
       /\ (Unfinished(p) /\ ~ENABLED MixStep(p)) =>
            IF hpc[p] \in UploadInside \cup DownloadInside
            THEN AtStoreLock(p)
            ELSE AtStoreLock(p) \/ hpc[p] \in {"up_acquire", "dl_acquire"}
       /\ (mu.w = p \/ p \in mu.r) => hpc[p] \notin {"up_acquire", "dl_acquire"}
  /\ (flush.pending > 0 /\ ~ENABLED FlushSnapshot) =>
       \E p \in Procs : mu.w = p /\ ENABLED MixStep(p)

\* an upload in its critical section, a download waiting for the store's
\* lock with its slot held, and a flush waiting to read the counters
C35_Witness ==
  \E p, q \in Procs :
    /\ hpc[p] = "up_save" /\ pc[p] \in CommitPcs /\ mu.w = p
    /\ hpc[q] = "dl_count" /\ pc[q] = "idc_lock"
    /\ flush.pending > 0

\* the whole minutes the limiter's clock runs through
ClockMinutes == MaxClock \div UnitsPerMinute

\* C36: over the ClockMinutes minutes from the limiter's start, the Allow
\* calls of an identity that returned true are at most
\* burst + ClockMinutes * rate, whatever the sweep removed in between.
C36_RateBound ==
  \A ip \in Ips : granted[ip] <= burst + ClockMinutes * rate

\* C37: a step that turns a valid cache invalid is a step of a SaveFile or
\* of a DeleteFile call; no step of ListFiles or ListFilesByCategory does.
C37_ReadsKeepCacheValid ==
  [][(cacheValid /\ ~cacheValid') =>
       \E p \in Procs :
         /\ pc'[p] # pc[p]
         /\ call'[p].op \in {"SaveFile", "DeleteFile"}]_vars

\* C38: while only downloads run, the counter of a key whose file is not in
\* its directory stays at zero.
C38_MissingNotCounted ==
  \A k \in DlKeys : ~Exists(dirs[k[1]], k[2]) => downloadCounts[k] = 0

=============================================================================
